---- MODULE Spec2Model ----
(***************************************************************************)
(* Model of visualization/compare_clouds.py: the rounding helper, the two  *)
(* validity-filter builders, and compare_point_clouds followed by the      *)
(* report written by main.                                                 *)
(*                                                                         *)
(* Numbers.  Coordinates of the source filter are rationals with           *)
(* denominator Den (quarters, exactly representable as floats, so that the *)
(* float arithmetic of the code is exact on them).  Distances and max_dist *)
(* are numerators over DistDen (tenths: 0.1 is 1, the cutoff 20 is         *)
(* md * DistDen).  Means and fractions are kept exactly, as pairs          *)
(* <<numerator, denominator>>.                                             *)
(***************************************************************************)
EXTENDS Integers, Sequences, FiniteSets

VARIABLES
    pc,             \* position in the run
    n,              \* correct_round: the argument, numerator over Den
    rounded,        \* correct_round: the result
    src_points,     \* source cloud: sequence of <<x,y,z>>, numerators over Den
    min_bound,      \* BB[0,:], numerators over Den
    res,            \* Res, an integer
    mask,           \* ObsMask: [Cells -> BOOLEAN]
    mask_inds,      \* flat indices read from the flattened mask
    src_filt,       \* source filter, sequence of 0/1
    tgt_points,     \* target cloud: sequence of integer <<x,y,z>>
    P,              \* plane, <<a,b,c,d>>
    tgt_filt,       \* target filter, sequence of 0/1
    max_dist,       \* ARGS.max_dist, numerator over DistDen
    dists_src,      \* compute_point_cloud_distance(src, tgt), over DistDen
    dists_tgt,      \* compute_point_cloud_distance(tgt, src), over DistDen
    valid_inds_src, \* list(valid_inds_src): the set in its iteration order
    valid_inds_tgt, \* list(valid_inds_tgt): the set in its iteration order
    ret,            \* what compare_point_clouds returned
    exc,            \* the exception that ended the run, or "none"
    report          \* the lines main wrote to the evaluation file

vars == <<pc, n, rounded, src_points, min_bound, res, mask, mask_inds,
          src_filt, tgt_points, P, tgt_filt, max_dist, dists_src, dists_tgt,
          valid_inds_src, valid_inds_tgt, ret, exc, report>>

-----------------------------------------------------------------------------
(* Bounds of the model *)

Den == 4
MaxAbsRound == 16
MaxSrcPts == 2
MaskX == 3
MaskY == 2
MaskZ == 2
MaxTgtPts == 2
DistDen == 10
MaxTotalPts == 3

-----------------------------------------------------------------------------
(* Sequence helpers *)

Range(s) == {s[i] : i \in DOMAIN s}

SeqsUpTo(S, k) == UNION {[1..m -> S] : m \in 1..k}

-----------------------------------------------------------------------------
(* correct_round *)

\* numpy.round on the rational num/den (den > 0): nearest integer, an exact
\* half goes to the even neighbour.
NpRound(num, den) ==
    LET f == num \div den
        r == num % den
    IN  IF 2 * r < den THEN f
        ELSE IF 2 * r > den THEN f + 1
        ELSE IF f % 2 = 0 THEN f ELSE f + 1

\* correct_round(n) = np.round(n + 0.5), n = num/den.
correct_round(num, den) == NpRound(2 * num + den, 2 * den)

-----------------------------------------------------------------------------
(* build_src_points_filter *)

mask_shape == <<MaskX, MaskY, MaskZ>>

Cells == (0..(MaskX - 1)) \X (0..(MaskY - 1)) \X (0..(MaskZ - 1))

\* qv = correct_round((points - min_bound) / res).astype(int), one point
Qv(p, mb, r) == [a \in 1..3 |-> correct_round(p[a] - mb[a], Den * r)]

InBoundsIdx(q) ==
    /\ q[1] >= 0 /\ q[1] < mask_shape[1]
    /\ q[2] >= 0 /\ q[2] < mask_shape[2]
    /\ q[3] >= 0 /\ q[3] < mask_shape[3]

\* np.ravel_multi_index(idx, dims, order='C')
RavelMultiIndex(q, dims) == q[1] * dims[2] * dims[3] + q[2] * dims[3] + q[3]

\* mask.flatten(): element f of the C-order flattening
Flatten(m, dims) ==
    [f \in 0..(dims[1] * dims[2] * dims[3] - 1) |->
        m[<<f \div (dims[2] * dims[3]), (f \div dims[3]) % dims[2], f % dims[3]>>]]

\* np.where(cond)[0] over positions i..len: the ascending sequence of the
\* positions that satisfy cond (hits is the set of those positions)
RECURSIVE WhereSeq(_, _, _)
WhereSeq(hits, i, len) ==
    IF i > len THEN <<>>
    ELSE IF i \in hits THEN <<i>> \o WhereSeq(hits, i + 1, len)
    ELSE WhereSeq(hits, i + 1, len)

BuildSrcFilter(points, mb, r, m) ==
    LET qv == [i \in 1..Len(points) |-> Qv(points[i], mb, r)]
        in_bounds == WhereSeq({i \in 1..Len(points) : InBoundsIdx(qv[i])},
                              1, Len(points))
        inds == [k \in 1..Len(in_bounds) |->
                    RavelMultiIndex(qv[in_bounds[k]], mask_shape)]
        flat == Flatten(m, mask_shape)
        valid_mask_points ==
            WhereSeq({k \in 1..Len(in_bounds) : flat[inds[k]] = TRUE},
                     1, Len(in_bounds))
        hit == {in_bounds[valid_mask_points[k]] : k \in 1..Len(valid_mask_points)}
    IN  [filt |-> [i \in 1..Len(points) |-> IF i \in hit THEN 1 ELSE 0],
         inds |-> Range(inds)]

-----------------------------------------------------------------------------
(* build_tgt_points_filter *)

RECURSIVE Dot(_, _, _)
Dot(u, v, k) == IF k = 0 THEN 0 ELSE Dot(u, v, k - 1) + u[k] * v[k]

\* (Pt @ concatenate(points, ones)) for one point
PlaneProd(Pv, p) == Dot(Pv, Append(p, 1), 4)

\* Variant: a point on the plane counts as valid
PositiveSideOrOn(prod) == prod >= 0

\* plane_prod > 0
PositiveSide(prod) == prod > 0

BuildTgtFilter(points, Pv) ==
    [i \in 1..Len(points) |->
        IF PositiveSide(PlaneProd(Pv, points[i])) THEN 1 ELSE 0]

-----------------------------------------------------------------------------
(* compare_point_clouds.  Distances are numerators over DistDen. *)

md == 20

NumSweep == 50

\* Variant: the two index sets are united
ValidSetUnion(filt, dists) ==
    {i \in 1..Len(filt) : filt[i] = 1}
        \cup {i \in 1..Len(dists) : dists[i] <= md * DistDen}

\* set(np.where(filt == 1)[0]) after intersection_update with
\* set(np.where(dists <= md)[0])
ValidSet(filt, dists) ==
    {i \in 1..Len(filt) : filt[i] = 1}
        \cap {i \in 1..Len(dists) : dists[i] <= md * DistDen}

\* list(s): the elements of the set, each once, in the order the set
\* happens to iterate them
SetOrders(S) == {f \in [1..Cardinality(S) -> S] : Range(f) = S}

\* Variant: the distances are not restricted to the valid indices
TakeAll(dists, inds) == dists

\* dists[valid_inds]: fancy indexing keeps the order of the indices
Take(dists, inds) == [k \in 1..Len(inds) |-> dists[inds[k]]]

RECURSIVE SumSeq(_, _)
SumSeq(s, k) == IF k = 0 THEN 0 ELSE SumSeq(s, k - 1) + s[k]

\* np.mean(d): sum over count
Mean(d) == <<SumSeq(d, Len(d)), Len(d)>>

\* Variant: strictly below the threshold
WithinStrict(dk, thnum, thden) == dk * thden < thnum

\* d[k] <= th, th = thnum/thden
Within(dk, thnum, thden) == dk * thden <= thnum

\* len(np.where(d <= th)[0]) / len(d)
FracBelow(d, thnum, thden) ==
    <<Cardinality({k \in 1..Len(d) : Within(d[k], thnum, thden)}), Len(d)>>

\* Variant: the sweep runs from 3*max_dist down to 0
ThValsReversed(maxd) ==
    [j \in 1..NumSweep |-> <<(NumSweep - j) * 3 * maxd, NumSweep - 1>>]

\* np.linspace(0, 3*max_dist, num=50)
ThVals(maxd) == [j \in 1..NumSweep |-> <<(j - 1) * 3 * maxd, NumSweep - 1>>]

\* PointCloud.select_by_index(indices, invert): the selected points of the
\* cloud in the cloud's own order, whatever the order of the indices
SelectByIndex(npts, inds, invert) ==
    WhereSeq({i \in 1..npts : (i \in Range(inds)) # invert}, 1, npts)

Minimum(a, b) == IF a <= b THEN a ELSE b

\* cmap(np.minimum(d, max_dist) / max_dist): the k-th colour comes from d[k]
HotColors(d, maxd) ==
    [k \in 1..Len(d) |->
        [cmap |-> "hot_r", key |-> <<Minimum(d[k], maxd), maxd>>]]

WinterColor == [cmap |-> "winter", key |-> <<1, 1>>]

\* valid_ply + invalid_ply of one side: points (by their position in the
\* input cloud) with their colours, valid part first
DiagCloud(npts, inds, d, maxd) ==
    LET valid_pts == SelectByIndex(npts, inds, FALSE)
        colors == HotColors(d, maxd)
        invalid_pts == SelectByIndex(npts, inds, TRUE)
    IN  [k \in 1..Len(valid_pts) |-> [pt |-> valid_pts[k], color |-> colors[k]]]
            \o [k \in 1..Len(invalid_pts) |->
                    [pt |-> invalid_pts[k], color |-> WinterColor]]

\* Everything after the two index selections (lines 103-142)
Metrics(vs, vt, ds, dt, maxd) ==
    LET sel_src == Take(ds, vs)
        sel_tgt == Take(dt, vt)
        th_vals == ThVals(maxd)
    IN  [precision_ply |-> DiagCloud(Len(ds), vs, sel_src, maxd),
         recall_ply |-> DiagCloud(Len(dt), vt, sel_tgt, maxd),
         acc |-> Mean(sel_src),
         comp |-> Mean(sel_tgt),
         prec |-> FracBelow(sel_src, maxd, 1),
         rec |-> FracBelow(sel_tgt, maxd, 1),
         th_vals |-> th_vals,
         prec_vals |-> [j \in 1..NumSweep |->
                          FracBelow(sel_src, th_vals[j][1], th_vals[j][2])],
         rec_vals |-> [j \in 1..NumSweep |->
                          FracBelow(sel_tgt, th_vals[j][1], th_vals[j][2])],
         src_size |-> Len(SelectByIndex(Len(ds), vs, FALSE)),
         tgt_size |-> Len(SelectByIndex(Len(dt), vt, FALSE))]

\* "{:0.3f}".format(num / (den * DistDen)): the value in thousandths, to the
\* nearest; "nan" for 0/0
Fmt3(q) ==
    IF q[2] = 0 THEN "nan" ELSE NpRound(1000 * q[1], q[2] * DistDen)

\* "{:0.3f}".format of a plain fraction
FmtFrac3(q) ==
    IF q[2] = 0 THEN "nan" ELSE NpRound(1000 * q[1], q[2])

-----------------------------------------------------------------------------
(* Inputs *)

DistVals == {0, 1, 5, md * DistDen, md * DistDen + 1}

MaxDistVals == {0, 4}

SeqMin(s) == CHOOSE m \in Range(s) : \A x \in Range(s) : m <= x

CoordVals == {-2 * Den, -Den, 1, Den}

SrcPointVals == CoordVals \X CoordVals \X CoordVals

MinBoundVals == {<<0, 0, 0>>, <<-Den, -Den, -Den>>}

ResVals == {1, 2}

MaskCells == {<<0, 0, 0>>, <<1, 1, 1>>, <<MaskX - 1, MaskY - 1, MaskZ - 1>>}

Masks == {[c \in Cells |-> c = t] : t \in MaskCells}
            \cup {[c \in Cells |-> c # t] : t \in MaskCells}

TgtPointVals == {-1, 0, 1} \X {0, 1} \X {0, 1}

PlaneVals == {<<1, 0, 0, 0>>, <<-1, 0, 0, 0>>, <<0, 0, 1, -1>>,
              <<1, 1, 1, -1>>, <<0, 0, 0, 1>>, <<0, 1, -1, 0>>}

-----------------------------------------------------------------------------
(* Parts of the state a specification does not use *)

IdleRound == n = 0 /\ rounded = 0

IdleSrc ==
    /\ src_points = <<>> /\ min_bound = <<0, 0, 0>> /\ res = 1
    /\ mask = [c \in Cells |-> FALSE] /\ mask_inds = {}

IdleTgt == tgt_points = <<>> /\ P = <<0, 0, 0, 0>>

IdleFilters == src_filt = <<>> /\ tgt_filt = <<>>

IdleCmp ==
    /\ max_dist = 0 /\ dists_src = <<>> /\ dists_tgt = <<>>
    /\ valid_inds_src = <<>> /\ valid_inds_tgt = <<>>
    /\ ret = <<>> /\ exc = "none" /\ report = <<>>

-----------------------------------------------------------------------------
(* correct_round applied to one number *)

InitRound ==
    /\ pc = "round"
    /\ n \in (-(MaxAbsRound * Den))..(MaxAbsRound * Den)
    /\ rounded = 0
    /\ IdleSrc /\ IdleTgt /\ IdleFilters /\ IdleCmp

ApplyCorrectRound ==
    /\ pc = "round"
    /\ rounded' = correct_round(n, Den)
    /\ pc' = "done"
    /\ UNCHANGED <<n, src_points, min_bound, res, mask, mask_inds, src_filt,
                   tgt_points, P, tgt_filt, max_dist, dists_src, dists_tgt,
                   valid_inds_src, valid_inds_tgt, ret, exc, report>>

NextRound == ApplyCorrectRound

SpecRound == InitRound /\ [][NextRound]_vars

-----------------------------------------------------------------------------
(* build_src_points_filter applied to one cloud and mask *)

InitSrc ==
    /\ pc = "src_filter"
    /\ src_points \in SeqsUpTo(SrcPointVals, MaxSrcPts)
    /\ min_bound \in MinBoundVals
    /\ res \in ResVals
    /\ mask \in Masks
    /\ mask_inds = {}
    /\ IdleRound /\ IdleTgt /\ IdleFilters /\ IdleCmp

build_src_points_filter ==
    /\ pc = "src_filter"
    /\ LET b == BuildSrcFilter(src_points, min_bound, res, mask)
       IN  /\ src_filt' = b.filt
           /\ mask_inds' = b.inds
    /\ pc' = "done"
    /\ UNCHANGED <<n, rounded, src_points, min_bound, res, mask, tgt_points,
                   P, tgt_filt, max_dist, dists_src, dists_tgt,
                   valid_inds_src, valid_inds_tgt, ret, exc, report>>

NextSrc == build_src_points_filter

SpecSrc == InitSrc /\ [][NextSrc]_vars

-----------------------------------------------------------------------------
(* build_tgt_points_filter applied to one cloud and plane *)

InitTgt ==
    /\ pc = "tgt_filter"
    /\ tgt_points \in SeqsUpTo(TgtPointVals, MaxTgtPts)
    /\ P \in PlaneVals
    /\ IdleRound /\ IdleSrc /\ IdleFilters /\ IdleCmp

build_tgt_points_filter ==
    /\ pc = "tgt_filter"
    /\ tgt_filt' = BuildTgtFilter(tgt_points, P)
    /\ pc' = "done"
    /\ UNCHANGED <<n, rounded, src_points, min_bound, res, mask, mask_inds,
                   src_filt, tgt_points, P, max_dist, dists_src, dists_tgt,
                   valid_inds_src, valid_inds_tgt, ret, exc, report>>

NextTgt == build_tgt_points_filter

SpecTgt == InitTgt /\ [][NextTgt]_vars

-----------------------------------------------------------------------------
(* main from the call of compare_point_clouds on: the filters are built,   *)
(* the nearest-neighbour distances are those of the two clouds.  The two   *)
(* distance arrays of real clouds have the same minimum (the closest pair  *)
(* is closest from both sides); any two arrays that do are the distances   *)
(* of some pair of clouds.                                                 *)

InitCmp ==
    /\ pc = "compare"
    /\ \E ns \in 1..(MaxTotalPts - 1) : \E nt \in 1..(MaxTotalPts - ns) :
          /\ src_filt \in [1..ns -> {0, 1}]
          /\ tgt_filt \in [1..nt -> {0, 1}]
          /\ dists_src \in [1..ns -> DistVals]
          /\ dists_tgt \in [1..nt -> DistVals]
    /\ SeqMin(dists_src) = SeqMin(dists_tgt)
    /\ max_dist \in MaxDistVals
    /\ valid_inds_src = <<>> /\ valid_inds_tgt = <<>>
    /\ ret = <<>> /\ exc = "none" /\ report = <<>>
    /\ IdleRound /\ IdleSrc /\ IdleTgt

\* compare_point_clouds runs to its return statement
compare_returns ==
    /\ pc = "compare"
    /\ ValidSet(src_filt, dists_src) # {}
    /\ ValidSet(tgt_filt, dists_tgt) # {}
    /\ \E vs \in SetOrders(ValidSet(src_filt, dists_src)) :
       \E vt \in SetOrders(ValidSet(tgt_filt, dists_tgt)) :
          /\ valid_inds_src' = vs
          /\ valid_inds_tgt' = vt
          /\ ret' = Metrics(vs, vt, dists_src, dists_tgt, max_dist)
    /\ pc' = "report"
    /\ UNCHANGED <<n, rounded, src_points, min_bound, res, mask, mask_inds,
                   src_filt, tgt_points, P, tgt_filt, max_dist, dists_src,
                   dists_tgt, exc, report>>

\* An empty index set becomes np.asarray([]), an array of floats, and
\* indexing the distances with it (line 94 for the source, line 101 for the
\* target) raises IndexError; nothing catches it.
compare_raises ==
    /\ pc = "compare"
    /\ \/ ValidSet(src_filt, dists_src) = {}
       \/ ValidSet(tgt_filt, dists_tgt) = {}
    /\ exc' = "IndexError"
    /\ pc' = "aborted"
    /\ UNCHANGED <<n, rounded, src_points, min_bound, res, mask, mask_inds,
                   src_filt, tgt_points, P, tgt_filt, max_dist, dists_src,
                   dists_tgt, valid_inds_src, valid_inds_tgt, ret, report>>

\* main, lines 219-249: the evaluation file
write_report ==
    /\ pc = "report"
    /\ report' = [src_size |-> ret.src_size,
                  tgt_size |-> ret.tgt_size,
                  acc |-> Fmt3(ret.acc),
                  comp |-> Fmt3(ret.comp),
                  prec |-> FmtFrac3(ret.prec),
                  rec |-> FmtFrac3(ret.rec)]
    /\ pc' = "done"
    /\ UNCHANGED <<n, rounded, src_points, min_bound, res, mask, mask_inds,
                   src_filt, tgt_points, P, tgt_filt, max_dist, dists_src,
                   dists_tgt, valid_inds_src, valid_inds_tgt, ret, exc>>

NextCmp == compare_returns \/ compare_raises \/ write_report

SpecCmp == InitCmp /\ [][NextCmp]_vars

-----------------------------------------------------------------------------
(* Claims about correct_round and the source filter *)

\* round half up: floor(num/den + 1/2)
RoundHalfUp(num, den) == (2 * num + den) \div (2 * den)

\* C3: correct_round is round-half-up: its result is floor(n + 0.5) for
\* every n (integers, halves, other fractions, negatives).
C3_RoundHalfUp == pc = "done" => rounded = RoundHalfUp(n, Den)

\* The two values the specification names do come out as it says:
\* correct_round(2.5) = 3 and correct_round(-0.5) = 0.
C3_NamedValues ==
    pc = "done" => /\ (2 * n = 5 * Den => rounded = 3)
                   /\ (2 * n = -Den => rounded = 0)

\* The scaled coordinate of point p lies exactly on the integer cell c.
OnCell(p, c) ==
    \A a \in 1..3 : p[a] - min_bound[a] = c[a] * Den * res

\* C1: a source point exactly on an in-bounds cell (i,j,k) gets filter 1 if
\* mask[i,j,k] is true and 0 if it is false: it is tested against its own
\* cell.
C1_OwnCell ==
    pc = "done" =>
        \A i \in 1..Len(src_points) : \A c \in Cells :
            OnCell(src_points[i], c) =>
                src_filt[i] = (IF mask[c] THEN 1 ELSE 0)

\* C2: a source point whose round-half-up grid index is out of the mask's
\* bounds on some axis gets filter 0, and no flat index outside the mask is
\* read.
C2_OutOfBoundsInvalid ==
    pc = "done" =>
        /\ \A i \in 1..Len(src_points) :
              LET idx == [a \in 1..3 |->
                            RoundHalfUp(src_points[i][a] - min_bound[a], Den * res)]
              IN  ~InBoundsIdx(idx) => src_filt[i] = 0
        /\ mask_inds \subseteq 0..(MaskX * MaskY * MaskZ - 1)

-----------------------------------------------------------------------------
(* Claims about the target filter *)

\* C4: the target filter has one entry per target point, in the cloud's
\* order, and the entry is 1 iff P.[x,y,z,1] > 0 (0 when the product is 0
\* or negative).
C4_PlaneSide ==
    pc = "done" =>
        /\ Len(tgt_filt) = Len(tgt_points)
        /\ \A i \in 1..Len(tgt_points) :
              LET p == tgt_points[i]
                  prod == P[1] * p[1] + P[2] * p[2] + P[3] * p[3] + P[4]
              IN  /\ tgt_filt[i] \in {0, 1}
                  /\ tgt_filt[i] = 1 <=> prod > 0

C4_Witness ==
    /\ pc = "done"
    /\ Len(tgt_points) = 2
    /\ \E i, j \in 1..2 :
          /\ P[1] * tgt_points[i][1] + P[2] * tgt_points[i][2]
                + P[3] * tgt_points[i][3] + P[4] = 0
          /\ tgt_filt[i] = 0
          /\ tgt_filt[j] = 1

-----------------------------------------------------------------------------
(* Claims about compare_point_clouds *)

Returned == pc \in {"report", "done"}

\* The points of a side that pass both the filter and the outlier cutoff,
\* stated from the inputs.
ValidPts(filt, d) ==
    {i \in 1..Len(d) : filt[i] = 1 /\ d[i] <= 20 * DistDen}

RECURSIVE SumOver(_, _)
SumOver(S, d) ==
    IF S = {} THEN 0
    ELSE LET i == CHOOSE x \in S : TRUE IN d[i] + SumOver(S \ {i}, d)

\* a/b = c/d and a/b <= c/d for fractions with positive denominators
EqFrac(p, q) == p[1] * q[2] = q[1] * p[2]

LeqFrac(p, q) == p[1] * q[2] <= q[1] * p[2]

\* One side of C5: the indices that enter the metrics are those of ValidPts,
\* each once, and the mean and the fraction are taken over exactly them.
EntersMetrics(filt, d, inds, mean, frac, size) ==
    /\ Range(inds) = ValidPts(filt, d)
    /\ Len(inds) = Cardinality(ValidPts(filt, d))
    /\ \A i \in 1..Len(d) :
          /\ filt[i] = 0 => i \notin Range(inds)
          /\ d[i] > 20 * DistDen => i \notin Range(inds)
          /\ (filt[i] = 1 /\ d[i] = 20 * DistDen) => i \in Range(inds)
    /\ mean = <<SumOver(ValidPts(filt, d), d), Cardinality(ValidPts(filt, d))>>
    /\ frac[2] = Cardinality(ValidPts(filt, d))
    /\ size = Cardinality(ValidPts(filt, d))

\* C5: on each side the points that enter the metrics are exactly those
\* with filter 1 and distance <= 20: filter 0 is out whatever the distance,
\* distance > 20 is out whatever the filter, distance 20 with filter 1 is in.
C5_ValidIsIntersection ==
    Returned =>
        /\ EntersMetrics(src_filt, dists_src, valid_inds_src,
                         ret.acc, ret.prec, ret.src_size)
        /\ EntersMetrics(tgt_filt, dists_tgt, valid_inds_tgt,
                         ret.comp, ret.rec, ret.tgt_size)

C5_Witness ==
    /\ pc = "report"
    /\ \E i, k \in 1..Len(dists_src) :
          /\ src_filt[i] = 1 /\ dists_src[i] = 20 * DistDen
          /\ i \in Range(valid_inds_src)
          /\ src_filt[k] = 1 /\ dists_src[k] = 20 * DistDen + 1
          /\ k \notin Range(valid_inds_src)
    /\ ret.src_size = 1

\* C6: when a side has no valid point the run ends in an explicit
\* EmptyValidSet outcome: no incidental exception, no report.
C6_EmptyValidSetHandled ==
    (pc # "compare" /\ (\/ ValidPts(src_filt, dists_src) = {}
                        \/ ValidPts(tgt_filt, dists_tgt) = {}))
        => (exc = "EmptyValidSet" /\ report = <<>>)

\* One side of C7: the mean is the arithmetic mean of the valid distances,
\* the fraction is the share of them that are <= max_dist.
MeanAndFraction(filt, d, mean, frac) ==
    LET V == ValidPts(filt, d)
    IN  /\ mean[2] > 0 /\ frac[2] > 0
        /\ mean[1] * Cardinality(V) = mean[2] * SumOver(V, d)
        /\ frac[1] * Cardinality(V)
              = frac[2] * Cardinality({i \in V : d[i] <= max_dist})

\* The scenario of C7: two valid source points at 0.1 and 0.5, max_dist 0.4
Scenario07 ==
    /\ Len(dists_src) = 2
    /\ src_filt = <<1, 1>>
    /\ {10 * dists_src[1], 10 * dists_src[2]} = {DistDen, 5 * DistDen}
    /\ 10 * max_dist = 4 * DistDen

\* C7: accuracy (completeness) is the arithmetic mean of the valid source
\* (target) distances, precision (recall) the share of them <= max_dist;
\* distances {0.1, 0.5} with max_dist 0.4 give precision 0.5, accuracy 0.3.
C7_MeanAndFraction ==
    Returned =>
        /\ MeanAndFraction(src_filt, dists_src, ret.acc, ret.prec)
        /\ MeanAndFraction(tgt_filt, dists_tgt, ret.comp, ret.rec)
        /\ Scenario07 =>
              /\ 2 * ret.prec[1] = ret.prec[2]
              /\ 10 * ret.acc[1] = 3 * ret.acc[2] * DistDen

C7_Witness ==
    /\ pc = "done"
    /\ Scenario07
    /\ report.prec = 500 /\ report.acc = 300
    /\ ret.rec = <<1, 1>>

\* C8: precision and recall lie in [0,1], and with max_dist = 0 precision
\* is the share of the valid source points at distance exactly 0.
C8_UnitInterval ==
    Returned =>
        /\ ret.prec[2] > 0 /\ 0 <= ret.prec[1] /\ ret.prec[1] <= ret.prec[2]
        /\ ret.rec[2] > 0 /\ 0 <= ret.rec[1] /\ ret.rec[1] <= ret.rec[2]
        /\ max_dist = 0 =>
              LET V == ValidPts(src_filt, dists_src)
              IN  ret.prec[1] * Cardinality(V)
                    = ret.prec[2] * Cardinality({i \in V : dists_src[i] = 0})

C8_Witness ==
    /\ pc = "report"
    /\ max_dist = 0
    /\ ret.prec = <<1, 2>>
    /\ \E i \in Range(valid_inds_src) : dists_src[i] = 0

DiagCloudAsClaimed(filt, d, cloud, size) ==
    LET V == ValidPts(filt, d)
    IN  /\ Len(cloud) = Len(d)
        /\ \A i \in 1..Len(d) :
              Cardinality({k \in 1..Len(cloud) : cloud[k].pt = i}) = 1
        /\ \A k \in 1..Len(cloud) : cloud[k].pt \in V <=> k <= Cardinality(V)
        /\ \A k \in 1..Len(cloud) :
              cloud[k].pt \in V =>
                cloud[k].color
                    = [cmap |-> "hot_r",
                       key |-> <<Minimum(d[cloud[k].pt], max_dist), max_dist>>]
        /\ size = Cardinality(V)

\* C10: each diagnostic cloud holds every input point once, valid points
\* first, each valid point coloured from its own distance, whatever order
\* the index set iterates in; the returned size is the number of valid
\* points.
C10_DiagCloud ==
    Returned =>
        /\ DiagCloudAsClaimed(src_filt, dists_src, ret.precision_ply, ret.src_size)
        /\ DiagCloudAsClaimed(tgt_filt, dists_tgt, ret.recall_ply, ret.tgt_size)

====
